---------------------------- MODULE Spec2Model ----------------------------
(***************************************************************************)
(* pi-celery-app: a FastAPI front end (src/api/app.py) that enqueues one   *)
(* of two Celery tasks (src/api/tasks.py) and lets a client poll Celery's  *)
(* result backend for progress and the result (src/api/celery_config.py).  *)
(*                                                                         *)
(* The job record of the specification is the task's meta in the result    *)
(* backend.  A task id with no meta in the backend reads as PENDING.       *)
(*   QUEUED   = PENDING (no meta)                                          *)
(*   RUNNING  = STARTED or PROGRESS                                        *)
(*   FINISHED = SUCCESS                                                    *)
(*   FAILED   = FAILURE                                                    *)
(***************************************************************************)
EXTENDS Integers, Sequences, FiniteSets, TLC

\* ------------------------------------------------------------------ bounds
\* Number of task messages ever sent (task ids are 1 .. MaxJobs).
MaxJobs == 1
\* Number of worker processes pulling from the broker.
NumWorkers == 2
\* The API is called with n in 0 .. MaxN (and with n just above the maximum).
MaxN == 1
\* The Series Estimator alone is run for every n in 0 .. SeriesMaxN.
SeriesMaxN == 45
\* Submissions alone are made for every n in 0 .. SubmitMaxN (and for the
\* n around the maximum).
SubmitMaxN == 60

\* ------------------------------------------------------- program constants
MaxDecimals == 10000
MinThrows == 100
MaxThrows == 20000000
DefaultThrows == 200000
ThrowsPerDecimal == 1000
BatchMin == 1000
BatchMax == 50000
BatchDivisor == 100
\* digits_per_term = 14.181647, in millionths of a digit
DigitsPerTermMicro == 14181647
\* task_track_started left at Celery's default
TrackStartedOff == FALSE
\* celery.conf.task_track_started
TrackStarted == TRUE

CHUDNOVSKY == "calculate_pi_chudnovsky"
BUFFON == "calculate_pi_buffon"
Algorithms == {CHUDNOVSKY, BUFFON}

Workers == 1 .. NumWorkers
\* Task ids.  The API and the producer give out 1 .. MaxJobs: under Spec
\* id MaxJobs + 1 is the unknown id.
TaskIds == 1 .. (MaxJobs + 1)

\* --------------------------------------------------------------- arguments
\* A task argument as it arrives over the JSON serializer: an integer, or a
\* value that is not an integer (a string, a float).
IntArg(v) == [isint |-> TRUE, val |-> v]
NonInt == [isint |-> FALSE, val |-> 0]

Min(a, b) == IF a <= b THEN a ELSE b
Max(a, b) == IF a >= b THEN a ELSE b

\* ----------------------------------------------------------- result backend
\* The meta the backend keeps for a task id.  kind tells what `result` holds:
\*   "none"     None                        (PENDING)
\*   "started"  {"pid": .., "hostname": ..} (STARTED)
\*   "progress" {"progress": num/den}       (PROGRESS)
\*   "str"      the task's return value     (SUCCESS)
\*   "exc"      the exception raised        (FAILURE), text its message
\* A result string is kept by its parts: the digits asked for (n), the
\* integer part, the number of digits after the point and the first of
\* them (at most ten), and for the sampling the counts it was made from.
NoRes ==
    [fmt |-> "none", digits |-> 0, whole |-> 0, fracLen |-> 0, lead |-> <<>>,
     hits |-> 0, throws |-> 0]
PendingMeta ==
    [status |-> "PENDING", kind |-> "none", num |-> 0, den |-> 1,
     text |-> "", res |-> NoRes]
StartedMeta ==
    [status |-> "STARTED", kind |-> "started", num |-> 0, den |-> 1,
     text |-> "", res |-> NoRes]
ProgressMeta(p) ==
    [status |-> "PROGRESS", kind |-> "progress", num |-> p[1], den |-> p[2],
     text |-> "", res |-> NoRes]
SuccessMeta(r) ==
    [status |-> "SUCCESS", kind |-> "str", num |-> 0, den |-> 1,
     text |-> "", res |-> r]
FailureMeta(msg) ==
    [status |-> "FAILURE", kind |-> "exc", num |-> 0, den |-> 1,
     text |-> msg, res |-> NoRes]

\* celery.states.READY_STATES
Ready(m) == m.status \in {"SUCCESS", "FAILURE"}

\* The job state of the specification that a backend meta stands for.
JobState(m) ==
    CASE m.status = "PENDING" -> "QUEUED"
      [] m.status \in {"STARTED", "PROGRESS"} -> "RUNNING"
      [] m.status = "SUCCESS" -> "FINISHED"
      [] m.status = "FAILURE" -> "FAILED"

\* ------------------------------------------------------------------- state
VARIABLES
    queue,      \* the broker: task messages not yet received by a worker
    store,      \* the result backend: task id -> meta
    nextId,     \* the next task id delay() gives out
    issued,     \* task id -> algorithm named in the StartResponse ("" if none)
    wk,         \* worker -> the task it executes and its position in it
    poll,       \* the check_progress request in flight
    resp,       \* the last HTTP response of the API
    lastProg,   \* task id -> progress of the last PROGRESS response
    nrep        \* task id -> number of update_state calls made for it

vars == <<queue, store, nextId, issued, wk, poll, resp, lastProg, nrep>>

IdleWorker ==
    [pc |-> "idle", id |-> 0, alg |-> "", n |-> NonInt, throws |-> NonInt,
     terms |-> 0, k |-> 0, batch |-> 0, completed |-> 0, hits |-> 0,
     err |-> "", res |-> NoRes]
IdlePoll == [pc |-> "idle", id |-> 0, cached |-> FALSE, meta |-> PendingMeta]
NoResp ==
    [kind |-> "none", id |-> 0, num |-> 0, den |-> 1, hasResult |-> FALSE,
     res |-> NoRes, hasError |-> FALSE, error |-> ""]

\* ------------------------------------------------------------------ inputs
Message(id, alg, n, throws) ==
    [id |-> id, alg |-> alg, n |-> n, throws |-> throws]
Call(alg, n, throws) == [alg |-> alg, n |-> n, throws |-> throws]

\* Values of the query parameter n the API is called with.
ApiInputs == (0 .. MaxN) \cup {MaxDecimals + 1}

\* Calls of the tasks made directly by a Celery producer, past the API:
\* a few that the guardrails refuse, a series of two terms, and a sampling
\* of three batches.  (TaskInputs below holds a call for every guardrail.)
DirectCalls ==
    {Call(CHUDNOVSKY, n, NonInt) : n \in {IntArg(0), IntArg(15)}}
    \cup
    {Call(BUFFON, IntArg(1), t) : t \in {IntArg(MinThrows - 1), IntArg(2500)}}
    \cup
    {Call(BUFFON, NonInt, IntArg(MinThrows))}

\* --------------------------------------------------------- src/api/tasks.py
\* math.ceil(n / digits_per_term) = ceil(n * 10^6 / 14181647) for
\* 0 <= n <= 14181.  The quotient is taken by long division, three decimal
\* digits after n * 1000, so that no intermediate value exceeds 32 bits.
\* (n / 14.181647 is never within a rounding error of an integer for these
\* n, so the float quotient and the exact one have the same ceiling.)
CeilDigits(n) ==
    LET d == DigitsPerTermMicro
        a == n * 1000
        q1 == (a * 10) \div d
        r1 == (a * 10) % d
        q2 == (r1 * 10) \div d
        r2 == (r1 * 10) % d
        q3 == (r2 * 10) \div d
        r3 == (r2 * 10) % d
    IN  q1 * 100 + q2 * 10 + q3 + (IF r3 > 0 THEN 1 ELSE 0)

\* the quotient rounded down, in place of math.ceil
TermsFloor(n) == Max(1, (n * 1000) \div (DigitsPerTermMicro \div 1000))
\* terms = max(1, math.ceil(n / digits_per_term))
Terms(n) == Max(1, CeilDigits(n))

\* the share of the terms still to come, in place of the share done
SeriesProgressRemaining(k, terms) == <<terms - k, terms>>
\* progress = (k + 1) / terms, after term k
SeriesProgress(k, terms) == <<k + 1, terms>>

\* the batch not capped at 50_000
BatchSizeNoCap(throws) == Max(BatchMin, throws \div BatchDivisor)
\* batch = min(50_000, max(1_000, throws // 100))
BatchSize(throws) == Min(BatchMax, Max(BatchMin, throws \div BatchDivisor))

\* the last batch not cut to the throws that remain
CurrBatchUncut(batch, throws, completed) == batch
\* curr = min(batch, throws - completed)
CurrBatch(batch, throws, completed) == Min(batch, throws - completed)

\* progress = completed / throws, after a batch
SamplingProgress(completed, throws) == <<completed, throws>>

\* The hits a batch of curr throws can score.  random.random() decides each
\* throw; the outcomes kept are no hit at all and the expected share 2/pi.
HitOutcomes(curr) == {0, (curr * 7) \div 11}

\* the guardrails without the test n < 1
ChudnovskyGuardNoLower(n) ==
    IF ~n.isint THEN "n must be an integer"
    ELSE IF n.val > MaxDecimals THEN "n is too large (max 10000)"
    ELSE ""
\* The guardrails of calculate_pi_chudnovsky: "" when n passes.
ChudnovskyGuard(n) ==
    IF ~n.isint THEN "n must be an integer"
    ELSE IF n.val < 1 THEN "n must be >= 1"
    ELSE IF n.val > MaxDecimals THEN "n is too large (max 10000)"
    ELSE ""

\* The guardrails of calculate_pi_buffon: "" when throws and n pass.
BuffonGuard(n, throws) ==
    IF ~throws.isint THEN "throws must be an integer"
    ELSE IF throws.val < MinThrows THEN "throws must be >= 100"
    ELSE IF throws.val > MaxThrows THEN "throws is too large (max 20000000)"
    ELSE IF ~n.isint THEN "n must be an integer"
    ELSE IF n.val < 1 THEN "n must be >= 1"
    ELSE ""

\* The first significant digits of pi_estimate.  One term of the series
\* already gives these fourteen, and more terms do not change them.
PiDigits == <<3, 1, 4, 1, 5, 9, 2, 6, 5, 3, 5, 8, 9, 7>>

\* Digits rounded up in the last place, the carry running over the nines.
\* (Digits that are all nines do not occur for pi or for an estimate >= 2
\* cut after the point; they are left as they are.)
RoundedUp(ds) ==
    LET notNine == {i \in 1 .. Len(ds) : ds[i] # 9} IN
    IF notNine = {} THEN ds
    ELSE LET i == CHOOSE j \in notNine : \A l \in notNine : l <= j
         IN [j \in 1 .. Len(ds) |->
                IF j < i THEN ds[j] ELSE IF j = i THEN ds[i] + 1 ELSE 0]

\* mpmath's nstr(x, dps, strip_zeros=False) for x = pi_estimate: dps
\* SIGNIFICANT digits, the last rounded up when the next digit is 5 or
\* more, the point after the first of them.  Up to eleven digits are kept:
\* for dps > 11 they are the first eleven of pi_estimate, which a rounding
\* further right does not reach (the twelfth digit is an 8).
NstrDigits(dps) ==
    IF dps + 3 <= Len(PiDigits)
    THEN IF PiDigits[dps + 1] >= 5 THEN RoundedUp(SubSeq(PiDigits, 1, dps))
         ELSE SubSeq(PiDigits, 1, dps)
    ELSE SubSeq(PiDigits, 1, 11)

\* pi_str = nstr(pi_estimate, n, strip_zeros=False)
SeriesResult(n) ==
    [fmt |-> "nstr", digits |-> n, whole |-> NstrDigits(n)[1],
     fracLen |-> n - 1, lead |-> Tail(NstrDigits(n)),
     hits |-> 0, throws |-> 0]

\* The first n digits of r / d after the point (0 <= r < d), by long
\* division, and the remainder left.
RECURSIVE LongDiv(_, _, _)
LongDiv(r, d, n) ==
    IF n = 0 THEN [ds |-> <<>>, r |-> r]
    ELSE LET rest == LongDiv((r * 10) % d, d, n - 1)
         IN  [ds |-> <<(r * 10) \div d>> \o rest.ds, r |-> rest.r]

\* f"{x:.{n}f}" for x = num / den: the integer part, the point and exactly
\* n digits, the last rounded to nearest.  (The float 2.0 / p_hat is within
\* 1e-15 of 2 * throws / hits, so it prints the same first digits; a tie
\* is rounded up here.)
FixedPoint(num, den, n) ==
    LET q == LongDiv(num % den, den, n)
        up == 2 * q.r >= den
        nines == \A i \in 1 .. n : q.ds[i] = 9
    IN  IF ~up THEN [whole |-> num \div den, frac |-> q.ds]
        ELSE IF nines
             THEN [whole |-> num \div den + 1, frac |-> [i \in 1 .. n |-> 0]]
             ELSE [whole |-> num \div den, frac |-> RoundedUp(q.ds)]

\* pi_est = 2.0 / p_hat; f"{pi_est:.{n}f}"
SamplingResult(n, hits, throws) ==
    LET f == FixedPoint(2 * throws, hits, n) IN
    [fmt |-> "fixed", digits |-> n, whole |-> f.whole,
     fracLen |-> Len(f.frac), lead |-> SubSeq(f.frac, 1, Min(n, 10)),
     hits |-> hits, throws |-> throws]

\* the started mark not written
MarkStartedSkipped(id) == store

\* The worker's tracer marks the task started before it calls the task's
\* function (task_track_started).
MarkStarted(id) ==
    IF TrackStarted THEN [store EXCEPT ![id] = StartedMeta] ELSE store

\* self.update_state(state="PROGRESS", meta={"progress": p})
UpdateState(id, p) == [store EXCEPT ![id] = ProgressMeta(p)]

\* the return value dropped, as with ignore_result
MarkDoneLost(id, r) == store
\* The tracer stores the return value of the task's function as SUCCESS.
MarkDone(id, r) == [store EXCEPT ![id] = SuccessMeta(r)]

\* the exception swallowed, nothing stored
MarkFailureLost(id, msg) == store

\* The tracer stores an exception the task's function raised as FAILURE.
MarkFailure(id, msg) == [store EXCEPT ![id] = FailureMeta(msg)]

\* the message left on the queue after its delivery
ReceiveKept(q) == q
\* The broker delivers a message to one worker and takes it off the queue;
\* the worker acknowledges it on receipt (task_acks_late is not set).
Receive(q) == Tail(q)

\* A worker receives the oldest message of the broker and starts the task.
\* The workers are alike: of the idle ones the first is taken to receive.
StartTask(w) ==
    /\ wk[w].pc = "idle"
    /\ \A v \in Workers : v < w => wk[v].pc # "idle"
    /\ queue # <<>>
    /\ LET m == Head(queue) IN
        /\ queue' = Receive(queue)
        /\ store' = MarkStarted(m.id)
        /\ wk' = [wk EXCEPT ![w] =
                    [IdleWorker EXCEPT !.pc = "guard", !.id = m.id,
                                       !.alg = m.alg, !.n = m.n,
                                       !.throws = m.throws]]
    /\ UNCHANGED <<nextId, issued, poll, resp, lastProg, nrep>>

\* The guardrails at the head of the task's function, then the set-up of
\* its loop.
Guardrails(w) ==
    /\ wk[w].pc = "guard"
    /\ LET t == wk[w]
           msg == IF t.alg = CHUDNOVSKY THEN ChudnovskyGuard(t.n)
                  ELSE BuffonGuard(t.n, t.throws)
       IN wk' = [wk EXCEPT ![w] =
            IF msg # "" THEN [t EXCEPT !.pc = "raised", !.err = msg]
            ELSE IF t.alg = CHUDNOVSKY
                 THEN [t EXCEPT !.pc = "loop", !.terms = Terms(t.n.val),
                                !.k = 0]
                 ELSE [t EXCEPT !.pc = "loop",
                                !.batch = BatchSize(t.throws.val),
                                !.completed = 0, !.hits = 0]]
    /\ UNCHANGED <<queue, store, nextId, issued, poll, resp, lastProg, nrep>>

\* One pass of `for k in range(terms)`: a term is added, progress stored.
SeriesTerm(w) ==
    /\ wk[w].pc = "loop"
    /\ wk[w].alg = CHUDNOVSKY
    /\ wk[w].k < wk[w].terms
    /\ store' = UpdateState(wk[w].id, SeriesProgress(wk[w].k, wk[w].terms))
    /\ nrep' = [nrep EXCEPT ![wk[w].id] = @ + 1]
    /\ wk' = [wk EXCEPT ![w].k = @ + 1]
    /\ UNCHANGED <<queue, nextId, issued, poll, resp, lastProg>>

\* The loop is over: pi_estimate is formatted and returned.
SeriesReturn(w) ==
    /\ wk[w].pc = "loop"
    /\ wk[w].alg = CHUDNOVSKY
    /\ wk[w].k >= wk[w].terms
    /\ wk' = [wk EXCEPT ![w].pc = "returned",
                        ![w].res = SeriesResult(wk[w].n.val)]
    /\ UNCHANGED <<queue, store, nextId, issued, poll, resp, lastProg, nrep>>

\* One pass of `while completed < throws`: a batch is thrown, progress stored.
SamplingBatch(w) ==
    /\ wk[w].pc = "loop"
    /\ wk[w].alg = BUFFON
    /\ wk[w].completed < wk[w].throws.val
    /\ LET t == wk[w]
           curr == CurrBatch(t.batch, t.throws.val, t.completed)
       IN \E local_hits \in HitOutcomes(curr) :
            /\ wk' = [wk EXCEPT ![w].hits = @ + local_hits,
                                ![w].completed = @ + curr]
            /\ store' = UpdateState(t.id,
                            SamplingProgress(t.completed + curr, t.throws.val))
            /\ nrep' = [nrep EXCEPT ![t.id] = @ + 1]
    /\ UNCHANGED <<queue, nextId, issued, poll, resp, lastProg>>

\* the test written for a negative share, which no count of hits gives
NoHitsNegative(hits, throws) == hits < 0
\* p_hat = hits / throws; p_hat == 0.  For 1 <= hits and throws <= 20000000
\* the float quotient is at least 5e-8, so it is zero only for hits = 0.
NoHits(hits, throws) == hits = 0

\* The loop is over: zero hits raise, otherwise the estimate is formatted
\* and returned.  (2.0 / p_hat raises ZeroDivisionError for p_hat = 0.0,
\* which the test before it keeps from happening.)
SamplingReturn(w) ==
    /\ wk[w].pc = "loop"
    /\ wk[w].alg = BUFFON
    /\ wk[w].completed >= wk[w].throws.val
    /\ LET t == wk[w] IN
        wk' = [wk EXCEPT ![w] =
            IF NoHits(t.hits, t.throws.val)
            THEN [t EXCEPT !.pc = "raised",
                    !.err = "No hits observed; increase 'throws' for a meaningful estimate"]
            ELSE IF t.hits = 0
            THEN [t EXCEPT !.pc = "raised", !.err = "float division by zero"]
            ELSE [t EXCEPT !.pc = "returned",
                    !.res = SamplingResult(t.n.val, t.hits, t.throws.val)]]
    /\ UNCHANGED <<queue, store, nextId, issued, poll, resp, lastProg, nrep>>

\* The task's function returned: the tracer stores the result.
OnSuccess(w) ==
    /\ wk[w].pc = "returned"
    /\ store' = MarkDone(wk[w].id, wk[w].res)
    /\ wk' = [wk EXCEPT ![w] = IdleWorker]
    /\ UNCHANGED <<queue, nextId, issued, poll, resp, lastProg, nrep>>

\* The task's function raised: the tracer stores the exception.
OnFailure(w) ==
    /\ wk[w].pc = "raised"
    /\ store' = MarkFailure(wk[w].id, wk[w].err)
    /\ wk' = [wk EXCEPT ![w] = IdleWorker]
    /\ UNCHANGED <<queue, nextId, issued, poll, resp, lastProg, nrep>>

\* A producer calls a task's delay() directly.
TaskDelay(c) ==
    /\ nextId <= MaxJobs
    /\ queue' = Append(queue, Message(nextId, c.alg, c.n, c.throws))
    /\ nextId' = nextId + 1
    /\ UNCHANGED <<store, issued, wk, poll, resp, lastProg, nrep>>

\* -------------------------------------------------- src/api/celery_config.py
\* result_expires: the backend drops a meta that was not written for an
\* hour.  A running task writes its meta again long before that, so only
\* the meta of a task that has ended expires.
Expire(id) ==
    /\ Ready(store[id])
    /\ store' = [store EXCEPT ![id] = PendingMeta]
    /\ UNCHANGED <<queue, nextId, issued, wk, poll, resp, lastProg, nrep>>

\* ----------------------------------------------------------- src/api/app.py
\* ten throws for a decimal place, and the result not clamped
DeriveThrowsTenfold(n) == n * 10
\* throws = max(100, min(20_000_000, int(n) * 1000))
DeriveThrows(n) == Max(MinThrows, Min(MaxThrows, n * ThrowsPerDecimal))

\* the query parameter declared without le=10000
ValidQueryNoUpper(n) == 1 <= n
\* Query(..., ge=1, le=10000)
ValidQuery(n) == 1 <= n /\ n <= MaxDecimals

\* the first branch's name given in both branches
AlgorithmTagSame(alg) == "calculate_pi_chudnovsky"
\* algorithm = "calculate_pi_chudnovsky" | "calculate_pi_buffon", set in the
\* branch that calls the task's delay().
AlgorithmTag(alg) ==
    IF alg = CHUDNOVSKY THEN "calculate_pi_chudnovsky"
    ELSE "calculate_pi_buffon"

\* GET /calculate_pi?n=..., with the outcome of random.choice as `alg`.
Submit(n, alg) ==
    IF ~ValidQuery(n)
    THEN /\ resp' = [NoResp EXCEPT !.kind = "HTTP422"]
         /\ UNCHANGED <<queue, store, nextId, issued, wk, poll, lastProg, nrep>>
    ELSE /\ nextId <= MaxJobs
         /\ queue' = Append(queue,
                IF alg = CHUDNOVSKY
                THEN Message(nextId, CHUDNOVSKY, IntArg(n), NonInt)
                ELSE Message(nextId, BUFFON, IntArg(n),
                             IntArg(DeriveThrows(n))))
         /\ issued' = [issued EXCEPT ![nextId] = AlgorithmTag(alg)]
         /\ nextId' = nextId + 1
         /\ resp' = [NoResp EXCEPT !.kind = "START", !.id = nextId]
         /\ UNCHANGED <<store, wk, poll, lastProg, nrep>>

\* progress = max(0.0, min(1.0, progress))
Clamp01(p) ==
    IF p[1] > p[2] THEN <<1, 1>> ELSE IF p[1] < 0 THEN <<0, 1>> ELSE p

\* bool(result.result): None is false; a non-empty dict, a non-empty str
\* and an exception are true.
Truthy(m) == m.kind # "none"

\* FINISHED answered with result=None
FinishedNoResult(id, m) ==
    [kind |-> "FINISHED", id |-> id, num |-> 1, den |-> 1,
     hasResult |-> FALSE, res |-> m.res, hasError |-> FALSE, error |-> ""]

\* ProgressResponse(state="FINISHED", progress=1.0, result=str(value))
FinishedResponse(id, m) ==
    [NoResp EXCEPT !.kind = "FINISHED", !.id = id, !.num = 1, !.den = 1,
                   !.hasResult = TRUE, !.res = m.res]
\* HTTPException(status_code=500, detail={"task_id": .., "error": err})
FailedResponse(id, m) ==
    [NoResp EXCEPT !.kind = "HTTP500", !.id = id, !.hasError = TRUE,
                   !.error = IF Truthy(m) THEN m.text ELSE "Task failed"]
\* ProgressResponse(state="PROGRESS", progress=progress, result=None)
ProgressResponse(id, p) ==
    [NoResp EXCEPT !.kind = "PROGRESS", !.id = id, !.num = p[1], !.den = p[2]]
\* info.get raises AttributeError on a str or an exception: the request
\* dies with an unhandled error.
CrashResponse(id) == [NoResp EXCEPT !.kind = "CRASH", !.id = id]

\* What lines 88-91 answer when result.info is the meta's result.
InfoResponse(id, m) ==
    CASE m.kind = "none" -> ProgressResponse(id, Clamp01(<<0, 1>>))
      [] m.kind = "started" -> ProgressResponse(id, Clamp01(<<0, 1>>))
      [] m.kind = "progress" -> ProgressResponse(id, Clamp01(<<m.num, m.den>>))
      [] OTHER -> CrashResponse(id)

Respond(r) ==
    /\ resp' = r
    /\ poll' = IdlePoll
    /\ lastProg' = IF r.kind = "PROGRESS"
                   THEN [lastProg EXCEPT ![r.id] = <<r.num, r.den>>]
                   ELSE lastProg

\* AsyncResult._get_task_meta: the meta read is kept once it is ready.
\* GET /check_progress: result.successful() reads the meta; a SUCCESS or a
\* FAILURE read here is cached, and decides the answer.
PollSuccessful(id) ==
    /\ poll.pc = "idle"
    /\ LET m == store[id] IN
        IF m.status = "SUCCESS" THEN Respond(FinishedResponse(id, m))
        ELSE IF m.status = "FAILURE" THEN Respond(FailedResponse(id, m))
        ELSE /\ poll' = [IdlePoll EXCEPT !.pc = "failed", !.id = id]
             /\ UNCHANGED <<resp, lastProg>>
    /\ UNCHANGED <<queue, store, nextId, issued, wk, nrep>>

\* result.failed() reads the meta again.
PollFailed ==
    /\ poll.pc = "failed"
    /\ LET m == store[poll.id] IN
        IF m.status = "FAILURE" THEN Respond(FailedResponse(poll.id, m))
        ELSE /\ poll' = [poll EXCEPT !.pc = "info", !.cached = Ready(m),
                                     !.meta = IF Ready(m) THEN m
                                              ELSE PendingMeta]
             /\ UNCHANGED <<resp, lastProg>>
    /\ UNCHANGED <<queue, store, nextId, issued, wk, nrep>>

\* result.info: the cached meta's result, or that of a third read.
PollInfo ==
    /\ poll.pc = "info"
    /\ LET m == IF poll.cached THEN poll.meta ELSE store[poll.id]
       IN Respond(InfoResponse(poll.id, m))
    /\ UNCHANGED <<queue, store, nextId, issued, wk, nrep>>

\* ----------------------------------------------------------- specification
Init ==
    /\ queue = <<>>
    /\ store = [id \in TaskIds |-> PendingMeta]
    /\ nextId = 1
    /\ issued = [id \in TaskIds |-> ""]
    /\ wk = [w \in Workers |-> IdleWorker]
    /\ poll = IdlePoll
    /\ resp = NoResp
    /\ lastProg = [id \in TaskIds |-> <<0, 1>>]
    /\ nrep = [id \in TaskIds |-> 0]

WorkerStep(w) ==
    \/ StartTask(w)
    \/ Guardrails(w)
    \/ SeriesTerm(w)
    \/ SeriesReturn(w)
    \/ SamplingBatch(w)
    \/ SamplingReturn(w)
    \/ OnSuccess(w)
    \/ OnFailure(w)

PollStep ==
    \/ \E id \in TaskIds : PollSuccessful(id)
    \/ PollFailed
    \/ PollInfo

Next ==
    \/ \E n \in ApiInputs, alg \in Algorithms : Submit(n, alg)
    \/ \E c \in DirectCalls : TaskDelay(c)
    \/ \E w \in Workers : WorkerStep(w)
    \/ PollStep
    \/ \E id \in TaskIds : Expire(id)

Spec == Init /\ [][Next]_vars

\* A worker process runs the task it has received to its end.
FairSpec == Spec /\ \A w \in Workers : WF_vars(WorkerStep(w))

\* ------------------------------------------------------------------- claims
\* A step of the API, of a producer or of a worker (every step but expiry).
ProgramStep ==
    \/ \E n \in ApiInputs, alg \in Algorithms : Submit(n, alg)
    \/ \E c \in DirectCalls : TaskDelay(c)
    \/ \E w \in Workers : WorkerStep(w)
    \/ PollStep

\* A check_progress request answers in this step.
PollAnswers == PollStep /\ poll'.pc = "idle"

LifecycleEdge(a, b) ==
    \/ a = b
    \/ a = "QUEUED" /\ b = "RUNNING"
    \/ a = "RUNNING" /\ b \in {"FINISHED", "FAILED"}

\* C1: over submit, worker and poll steps a job's state moves only along
\* QUEUED -> RUNNING -> FINISHED | FAILED: it is never FINISHED or FAILED
\* without having been RUNNING, and never goes from RUNNING back to QUEUED.
C1_Lifecycle ==
    [][ProgramStep =>
        \A id \in TaskIds :
            LifecycleEdge(JobState(store[id]), JobState(store'[id]))]_vars

\* A job has reached FINISHED and another step has followed.
C1_Witness ==
    \E id \in TaskIds :
        /\ JobState(store[id]) = "FINISHED"
        /\ resp.kind = "FINISHED" /\ resp.id = id

\* C2: FINISHED and FAILED are absorbing: no later step, expiry included,
\* changes a terminal record, so later polls report the same outcome.
C2_TerminalAbsorbing ==
    [][\A id \in TaskIds : Ready(store[id]) => store'[id] = store[id]]_vars

\* a <= b for progress values <<num, den>> with den > 0
Leq(a, b) == a[1] * b[2] <= b[1] * a[2]

\* C3: the progress values successive polls of a job return while it runs
\* are in [0, 1] and never decrease, and a FINISHED answer carries 1.0.
C3_PollProgress ==
    [][PollAnswers =>
        LET r == resp' IN
        /\ r.kind = "FINISHED" => r.num = 1 /\ r.den = 1
        /\ r.kind = "PROGRESS" =>
            /\ r.den > 0 /\ 0 <= r.num /\ r.num <= r.den
            /\ JobState(store[r.id]) = "RUNNING" =>
                    Leq(lastProg[r.id], <<r.num, r.den>>)]_vars

\* A poll has answered with a progress strictly between 0 and 1.
C3_Witness ==
    /\ resp.kind = "PROGRESS"
    /\ 0 < resp.num /\ resp.num < resp.den
    /\ JobState(store[resp.id]) = "RUNNING"

\* C4: whenever an estimator has raised, the job's record comes to FAILED
\* with an error message: the job does not stay RUNNING.
C4_RaisedLeadsToFailed ==
    \A id \in TaskIds :
        (\E w \in Workers : wk[w].pc = "raised" /\ wk[w].id = id)
            ~> (store[id].status = "FAILURE" /\ store[id].text # "")

\* A record is FAILED with the message of the zero-hits error or of a
\* guardrail.
C4_Witness ==
    \E id \in TaskIds :
        /\ store[id].status = "FAILURE"
        /\ store[id].text # ""
        /\ \A w \in Workers : wk[w].pc = "idle"

\* C5: a poll that races the worker's writes still answers well-formed
\* (PROGRESS with a number, FINISHED with the result, or the failure
\* response): it never takes a result or an error for progress metadata.
C5_PollWellFormed ==
    resp.kind \in {"none", "START", "HTTP422", "PROGRESS", "FINISHED", "HTTP500"}

\* C6: a poll of an id no submission has given out answers "not found":
\* it is not answered as a queued or running job, and does not crash.
C6_UnknownNotFound ==
    [][PollAnswers /\ resp'.id >= nextId => resp'.kind = "NOTFOUND"]_vars

ThrowsProbes ==
    {MinThrows - 1, MinThrows, MinThrows + 1, BatchMin - 1, BatchMin,
     BatchMin + 1, 2 * BatchMin, 2500, BatchMin * BatchDivisor - 1,
     BatchMin * BatchDivisor, BatchMin * BatchDivisor + BatchDivisor,
     150050, DefaultThrows, BatchMax * BatchDivisor - 1,
     BatchMax * BatchDivisor, BatchMax * BatchDivisor + BatchDivisor,
     MaxThrows, MaxThrows + 1}

\* The task calls the estimators are run on alone.
TaskInputs ==
    {Call(CHUDNOVSKY, n, NonInt) :
        n \in {IntArg(v) : v \in 0 .. SeriesMaxN}
              \cup {NonInt, IntArg(MaxDecimals - 1), IntArg(MaxDecimals),
                    IntArg(MaxDecimals + 1)}}
    \cup
    {Call(BUFFON, IntArg(1), IntArg(t)) : t \in ThrowsProbes}
    \cup
    {Call(BUFFON, n, IntArg(MinThrows)) : n \in {NonInt, IntArg(0)}}
    \cup
    {Call(BUFFON, IntArg(1), NonInt)}

InitTask ==
    /\ \E c \in TaskInputs : queue = <<Message(1, c.alg, c.n, c.throws)>>
    /\ store = [id \in TaskIds |-> PendingMeta]
    /\ nextId = 2
    /\ issued = [id \in TaskIds |-> ""]
    /\ wk = [w \in Workers |-> IdleWorker]
    /\ poll = IdlePoll
    /\ resp = NoResp
    /\ lastProg = [id \in TaskIds |-> <<0, 1>>]
    /\ nrep = [id \in TaskIds |-> 0]

NextTask == \E w \in Workers : WorkerStep(w)

SpecTask == InitTask /\ [][NextTask]_vars

\* A worker process runs the task it has received to its end.
FairSpecTask == SpecTask /\ \A w \in Workers : WF_vars(WorkerStep(w))

\* n * 10^6 <= t * 14181647, that is n <= t * 14.181647, for t <= 1000,
\* compared without leaving 32 bits.
Covers(t, n) ==
    LET d == n - (DigitsPerTermMicro \div 1000000) * t
    IN  d <= 0 \/ (d <= 200 /\ d * 1000000 <= (DigitsPerTermMicro % 1000000) * t)

\* T = ceil(n / 14.181647)
IsCeilDigits(T, n) == Covers(T, n) /\ ~Covers(T - 1, n)

\* C9: for a valid n the Series Estimator reports progress exactly
\* ceil(n / 14.181647) times, its j-th report is j / terms (so the reports
\* never decrease), the last one is 1.0, and n = 1 gives one report.
C9_SeriesReports ==
    \A w \in Workers :
        LET t == wk[w]
            n == t.n.val
            j == nrep[t.id]
        IN  (t.alg = CHUDNOVSKY /\ t.pc \in {"loop", "returned"}) =>
            /\ 1 <= n /\ n <= MaxDecimals
            /\ \E T \in (n \div 15) .. (n \div 14 + 1) :
                /\ IsCeilDigits(T, n)
                /\ j <= T
                /\ j >= 1 => /\ store[t.id].status = "PROGRESS"
                              /\ store[t.id].num * T = j * store[t.id].den
                /\ t.pc = "returned" =>
                        j = T /\ store[t.id].num = store[t.id].den
                /\ n = 1 => T = 1

\* The Series Estimator has returned for the largest n, after 706 reports.
C9_Witness ==
    \E w \in Workers :
        /\ wk[w].alg = CHUDNOVSKY
        /\ wk[w].pc = "returned"
        /\ wk[w].n.val = MaxDecimals
        /\ nrep[wk[w].id] = 706

ClampTo(x, lo, hi) == IF x < lo THEN lo ELSE IF x > hi THEN hi ELSE x

\* The throws the Sampling Estimator has completed after j reports when
\* every batch has `size` throws, or fewer when `cut` and fewer remain.
SamplingLaw(cut) ==
    \A w \in Workers :
        LET t == wk[w]
            throws == t.throws.val
            B == ClampTo(throws \div 100, 1000, 50000)
            j == nrep[t.id]
        IN  (t.alg = BUFFON /\ t.batch > 0
                /\ t.pc \in {"loop", "returned", "raised"}) =>
            /\ MinThrows <= throws /\ throws <= MaxThrows
            /\ t.completed = (IF cut THEN Min(j * B, throws) ELSE j * B)
            /\ t.completed <= throws
            /\ j >= 1 => /\ store[t.id].status = "PROGRESS"
                          /\ store[t.id].num = t.completed
                          /\ store[t.id].den = throws
            /\ t.pc \in {"returned", "raised"} => t.completed = throws

\* C10 as stated: every batch of the Sampling Estimator has exactly
\* clamp(throws / 100, 1000, 50000) throws, progress after a batch is
\* completed / throws, and the batches sum to throws.
C10_BatchesAllFull == SamplingLaw(FALSE)

\* C10, amended: every batch has min(clamp(throws div 100, 1000, 50000),
\* throws - completed) throws, so all batches but the last have the clamp
\* size and the last the remainder; progress after a batch is
\* completed / throws, never counts a throw not yet made, and the batches
\* sum to throws.
C10_BatchesCutToRemainder == SamplingLaw(TRUE)

\* The Sampling Estimator has ended after several batches, the last one
\* smaller than the others.
C10_Witness ==
    \E w \in Workers :
        /\ wk[w].alg = BUFFON
        /\ wk[w].pc = "returned"
        /\ nrep[wk[w].id] >= 3
        /\ wk[w].throws.val % wk[w].batch # 0
        /\ wk[w].completed = wk[w].throws.val

\* The message of the ValueError raised at src/api/tasks.py:109.
ZeroHitsMessage ==
    "No hits observed; increase 'throws' for a meaningful estimate"

\* C11: a run of the Sampling Estimator that scores zero hits over all its
\* throws raises the zero-hits error and returns no result: the job is
\* recorded FAILED with that message, and no FINISHED record of a sampling
\* job holds an estimate made from zero hits.
C11_ZeroHitsFails ==
    /\ \A w \in Workers :
        LET t == wk[w] IN
        (t.alg = BUFFON /\ t.batch > 0 /\ t.hits = 0
            /\ t.pc \in {"returned", "raised"}) =>
                /\ t.pc = "raised"
                /\ t.err = ZeroHitsMessage
                /\ t.res = NoRes
    /\ \A id \in TaskIds :
        /\ (store[id].status = "SUCCESS" /\ store[id].res.fmt = "fixed") =>
                store[id].res.hits > 0
        /\ (store[id].status = "FAILURE" /\ store[id].text = ZeroHitsMessage) =>
                store[id].res = NoRes /\ nrep[id] >= 1

\* A sampling job of several batches without a hit is recorded FAILED with
\* the zero-hits message.
C11_Witness ==
    \E id \in TaskIds :
        /\ store[id].status = "FAILURE"
        /\ store[id].text = ZeroHitsMessage
        /\ nrep[id] >= 3

\* The arguments of the task a worker holds are outside what the task's
\* docstring and messages allow.
InvalidArgs(t) ==
    \/ /\ t.alg = CHUDNOVSKY
       /\ ~(t.n.isint /\ 1 <= t.n.val /\ t.n.val <= 10000)
    \/ /\ t.alg = BUFFON
       /\ ~(/\ t.throws.isint
            /\ 100 <= t.throws.val /\ t.throws.val <= 20000000
            /\ t.n.isint /\ 1 <= t.n.val)

GuardMessages ==
    {"n must be an integer", "n must be >= 1", "n is too large (max 10000)",
     "throws must be an integer", "throws must be >= 100",
     "throws is too large (max 20000000)"}

\* A task with invalid arguments never enters its loop, and no progress
\* update is written for it, while a worker holds it and once it is FAILED.
RefusedBeforeWork(running) ==
    /\ \A w \in Workers :
        LET t == wk[w] IN
        (t.pc # "idle" /\ InvalidArgs(t)) =>
            /\ t.pc \in {"guard", "raised"}
            /\ t.pc = "raised" => t.err \in GuardMessages
            /\ nrep[t.id] = 0
            /\ IF running THEN store[t.id] = StartedMeta
               ELSE JobState(store[t.id]) # "RUNNING"
    /\ \A id \in TaskIds :
        (store[id].status = "FAILURE" /\ store[id].text \in GuardMessages) =>
            nrep[id] = 0

\* C12 as stated: a job whose input fails validation never becomes RUNNING
\* and has no progress update written before it is recorded as FAILED.
C12_NeverRunning == RefusedBeforeWork(FALSE)

\* C12, amended: a job whose input fails validation is refused before the
\* estimator's loop begins and has no progress update written before it is
\* recorded as FAILED with the guardrail's message; its record is RUNNING
\* (STARTED, no progress) from the worker's receipt until then.
C12_RefusedBeforeLoop == RefusedBeforeWork(TRUE)

\* A series job with n = 10001 is recorded FAILED by the guardrail, with no
\* progress update written.
C12_Witness ==
    \E id \in TaskIds :
        /\ store[id].status = "FAILURE"
        /\ store[id].text = "n is too large (max 10000)"
        /\ nrep[id] = 0

\* C13: a submission with n outside [1, 10000] is rejected (HTTP 422)
\* before the endpoint's body runs: no task is enqueued, no task id is
\* given out and no record is created or changed.
C13_RejectedBeforeCore ==
    [][\A n \in ApiInputs, alg \in Algorithms :
        (Submit(n, alg) /\ (n < 1 \/ n > 10000)) =>
            /\ resp'.kind = "HTTP422"
            /\ UNCHANGED <<queue, store, nextId, issued, wk, nrep>>]_vars

\* A submission has been rejected and no job exists.
C13_Witness ==
    /\ resp.kind = "HTTP422"
    /\ nextId = 1
    /\ queue = <<>>
    /\ \A id \in TaskIds : store[id] = PendingMeta /\ issued[id] = ""

\* ------------------------------------------------ workers on a filled queue
\* The broker holds one message for every task id when the workers start.
InitQueue ==
    /\ \E f \in [TaskIds -> DirectCalls] :
            queue = [i \in TaskIds |->
                        Message(i, f[i].alg, f[i].n, f[i].throws)]
    /\ store = [id \in TaskIds |-> PendingMeta]
    /\ nextId = MaxJobs + 2
    /\ issued = [id \in TaskIds |-> ""]
    /\ wk = [w \in Workers |-> IdleWorker]
    /\ poll = IdlePoll
    /\ resp = NoResp
    /\ lastProg = [id \in TaskIds |-> <<0, 1>>]
    /\ nrep = [id \in TaskIds |-> 0]

SpecQueue == InitQueue /\ [][NextTask]_vars

C15_FailedPollAnswersError ==
    [][(PollAnswers /\ JobState(store[resp'.id]) = "FAILED") =>
        /\ resp'.kind = "HTTP500"
        /\ resp'.hasError /\ resp'.error # ""
        /\ resp'.error = store[resp'.id].text
        /\ ~resp'.hasResult /\ resp'.res = NoRes]_vars

\* The loop of the task a worker holds is over.
LoopOver(t) ==
    \/ t.pc = "returned"
    \/ t.pc = "raised" /\ ~InvalidArgs(t)

\* C16: every valid job completes when the worker is scheduled fairly:
\* its loop ends after finitely many progress reports, the last report
\* is 1.0, and its record reaches FINISHED or FAILED with no worker
\* holding the job any more.
C16_ValidJobCompletes ==
    /\ [](\A w \in Workers :
            LoopOver(wk[w]) =>
                LET m == store[wk[w].id] IN
                /\ nrep[wk[w].id] >= 1
                /\ m.status = "PROGRESS" /\ m.num = m.den)
    /\ \A id \in TaskIds :
        (\E i \in 1 .. Len(queue) :
            queue[i].id = id /\ ~InvalidArgs(queue[i]))
          ~> (/\ Ready(store[id])
              /\ nrep[id] >= 1
              /\ \A w \in Workers : wk[w].pc = "idle")

\* A job is FINISHED after a hundred progress reports or more.
C16_Witness ==
    \E id \in TaskIds :
        /\ store[id].status = "SUCCESS"
        /\ nrep[id] >= 100
        /\ \A w \in Workers : wk[w].pc = "idle"

\* C17: the result string of every FINISHED job has an integer part, a
\* point and exactly n digits after the point; the series gives
\* "3.1415926536" for n = 10 and "3.1" for n = 1.
C17_ExactlyNDecimals ==
    \A id \in TaskIds :
        store[id].status = "SUCCESS" =>
            LET r == store[id].res IN
            /\ r.fmt \in {"nstr", "fixed"}
            /\ r.whole >= 0
            /\ r.fracLen = r.digits
            /\ (r.fmt = "nstr" /\ r.digits = 10) =>
                    r.whole = 3 /\ r.lead = <<1, 4, 1, 5, 9, 2, 6, 5, 3, 6>>
            /\ (r.fmt = "nstr" /\ r.digits = 1) =>
                    r.whole = 3 /\ r.lead = <<1>>

\* ------------------------------------------- submissions up to the guardrails
\* Values of the query parameter n over the accepted range and beside it.
SubmitInputs ==
    (0 .. SubmitMaxN)
    \cup {MaxDecimals - 1, MaxDecimals, MaxDecimals + 1}

\* The API enqueues tasks; the workers receive them and run the guardrails.
NextSubmit ==
    \/ \E n \in SubmitInputs, alg \in Algorithms : Submit(n, alg)
    \/ \E w \in Workers : StartTask(w)
    \/ \E w \in Workers : Guardrails(w)

SpecSubmit == Init /\ [][NextSubmit]_vars

\* The arguments of a sampling task as the claim derives them from n.
DerivedFromN(m) ==
    /\ m.n.isint /\ 1 <= m.n.val /\ m.n.val <= 10000
    /\ m.throws.isint
    /\ m.throws.val = ClampTo(m.n.val * 1000, 100, 20000000)
    /\ 100 <= m.throws.val /\ m.throws.val <= 20000000

\* C18: the throws of every sampling task a submission creates are
\* clamp(n * 1000, 100, 20000000) for its accepted n, lie in
\* [100, 20000000], and pass the Sampling Estimator's guardrails.
C18_DerivedThrowsValid ==
    /\ \A i \in 1 .. Len(queue) :
        queue[i].alg = BUFFON => DerivedFromN(queue[i])
    /\ \A w \in Workers :
        (wk[w].pc # "idle" /\ wk[w].alg = BUFFON) =>
            /\ DerivedFromN(wk[w])
            /\ wk[w].pc \in {"guard", "loop"}
            /\ wk[w].err = ""

\* The sampling task submitted for n = 10000 has passed the guardrails
\* with 10,000,000 throws.
C18_Witness ==
    \E w \in Workers :
        /\ wk[w].alg = BUFFON
        /\ wk[w].pc = "loop"
        /\ wk[w].n.val = MaxDecimals
        /\ wk[w].throws.val = 10000000
        /\ issued[wk[w].id] = BUFFON

\* A worker holds a sampling run whose loop is over.
SamplingOver(t) ==
    t.alg = BUFFON /\ t.batch > 0 /\ t.pc \in {"returned", "raised"}

\* C19 as stated: whatever the valid throws, a run of the Sampling
\* Estimator reports progress roughly 100 times (here: between half and
\* twice that).
C19_RoughlyHundred ==
    \A w \in Workers :
        SamplingOver(wk[w]) =>
            50 <= nrep[wk[w].id] /\ nrep[wk[w].id] <= 200

\* C19, amended: a run reports progress ceil(throws / batch) times, which
\* is 100 or 101 for 100,000 <= throws <= 5,000,000, ceil(throws / 1000)
\* (from 1 to 100) below that range, where the batch is held at 1000, and
\* ceil(throws / 50000) (from 101 to 400) above it, where the batch is
\* capped at 50000.
C19_ReportCount ==
    \A w \in Workers :
        LET throws == wk[w].throws.val
            j == nrep[wk[w].id]
        IN  SamplingOver(wk[w]) =>
            /\ throws < 100000 =>
                    j = (throws + 999) \div 1000 /\ 1 <= j /\ j <= 100
            /\ (100000 <= throws /\ throws <= 5000000) => j \in {100, 101}
            /\ throws > 5000000 =>
                    j = (throws + 49999) \div 50000 /\ 101 <= j /\ j <= 400

\* A run of 20,000,000 throws has ended after 400 reports.
C19_Witness ==
    \E w \in Workers :
        /\ SamplingOver(wk[w])
        /\ wk[w].throws.val = MaxThrows
        /\ nrep[wk[w].id] = 400

\* C20: an accepted submission adds exactly one task message to the queue,
\* for the id it returns, and the algorithm recorded for that id names the
\* task of that message; the worker that receives the message runs the
\* estimator so named.
C20_OneTaskTagged ==
    /\ [][((\E n \in SubmitInputs, alg \in Algorithms : Submit(n, alg))
            /\ resp'.kind = "START") =>
            /\ Len(queue') = Len(queue) + 1
            /\ SubSeq(queue', 1, Len(queue)) = queue
            /\ LET m == queue'[Len(queue')] IN
                /\ m.id = resp'.id
                /\ m.alg \in {"calculate_pi_chudnovsky", "calculate_pi_buffon"}
                /\ issued[m.id] = ""
                /\ issued'[m.id] = m.alg
                /\ \A id \in TaskIds \ {m.id} : issued'[id] = issued[id]
            /\ wk' = wk]_vars
    /\ [](\A w \in Workers :
            wk[w].pc # "idle" => issued[wk[w].id] = wk[w].alg)

\* A worker runs the sampling task under the id a submission returned,
\* and the id is tagged calculate_pi_buffon.
C20_Witness ==
    /\ resp.kind = "START"
    /\ \E w \in Workers :
        /\ wk[w].pc = "loop"
        /\ wk[w].id = resp.id
        /\ wk[w].alg = "calculate_pi_buffon"
        /\ issued[resp.id] = "calculate_pi_buffon"

=============================================================================
